---- MODULE Spec2Model ----
(***************************************************************************)
(* State-machine model of midiplay.py: the run loop of main() together     *)
(* with the GameDisplay object it drives (process handle, Play/Stop button *)
(* and the callbacks Tk delivers during display.window.update()).          *)
(*                                                                         *)
(* Every piece of code is a function from a program state (a record, the   *)
(* fields being the variables below) to a program state; an action applies *)
(* one such function to the current state.  Granularity: one action per    *)
(* straight-line stretch of main() between two loop heads.                 *)
(*                                                                         *)
(* The visualizer test program mvp.py is modelled beside it (variable vis, *)
(* specification VisSpec): its window and the jobs it schedules with       *)
(* window.after.                                                           *)
(***************************************************************************)
EXTENDS Integers, Sequences, FiniteSets, TLC

\* ------------------------------------------------------------------ bounds
PlaylistLen == 2      \* len(midi_files)
MaxLength == 1        \* longest mid.length (whole seconds) of a readable file
MaxTime == 3          \* elapsed times up to this one are kept apart
MaxEvents == 2        \* user events handled by one display.window.update()
MaxJobs == 3          \* window.after calls made by one run of mvp.py

\* ------------------------------------------------------- program constants
FallbackDuration == 120
NUM_BINS == 90

VARIABLES
  \* locals of main()
  pc,                       \* position in main()
  current_index,
  main_window_closed,
  continuous_play_enabled,
  start_playback_requested,
  stop_playback_requested,
  duration,
  box_art_url,
  start_time,
  was_stopped_by_user,
  \* the GameDisplay object
  display,
  \* environment
  os_alive,                 \* number of live timidity processes spawned by display
  now,                      \* time.time(), counted from the last line 357
  \* history variables (not read by the program)
  hist,
  \* mvp.py: the GameDisplay object of the visualizer and Tk's job queue
  vis

player_vars == << pc, current_index, main_window_closed,
                  continuous_play_enabled, start_playback_requested,
                  stop_playback_requested, duration, box_art_url, start_time,
                  was_stopped_by_user, display, os_alive, now, hist >>

vars == << player_vars, vis >>

\* ------------------------------------------------------------- value sets
\* What mido reads from a file: its length in whole seconds, or nothing
\* when mido.MidiFile raises.
Unreadable == [readable |-> FALSE, length |-> 0]
FileTimings == {[readable |-> TRUE, length |-> l] : l \in 0..MaxLength} \cup {Unreadable}
Tracks == 0..(PlaylistLen - 1)

NoneTitle == [kind |-> "none", track |-> 0]
FinishedTitle == [kind |-> "finished", track |-> 0]
base_name(i) == [kind |-> "file", track |-> i]

NoImage == [kind |-> "none", track |-> 0]
ArtOf(i) == [kind |-> "art", track |-> i]

Events == {"click", "close"}
RECURSIVE SeqsUpTo(_, _)
SeqsUpTo(S, n) ==
  IF n = 0 THEN {<< >>}
  ELSE LET shorter == SeqsUpTo(S, n - 1)
       IN shorter \cup {Append(q, e) : q \in {x \in shorter : Len(x) = n - 1}, e \in S}
EventSeqs == SeqsUpTo(Events, MaxEvents)

\* The program state as one record.
Cur ==
  [ pc |-> pc, current_index |-> current_index,
    main_window_closed |-> main_window_closed,
    continuous_play_enabled |-> continuous_play_enabled,
    start_playback_requested |-> start_playback_requested,
    stop_playback_requested |-> stop_playback_requested,
    duration |-> duration, box_art_url |-> box_art_url,
    start_time |-> start_time, was_stopped_by_user |-> was_stopped_by_user,
    display |-> display,
    os_alive |-> os_alive, now |-> now, hist |-> hist ]

\* The state a step of main() starts from: hist.last_press tells which press,
\* if any, the step has handled last.
Begin == [Cur EXCEPT !.hist.last_press = "none"]

Commit(s) ==
  /\ pc' = s.pc
  /\ current_index' = s.current_index
  /\ main_window_closed' = s.main_window_closed
  /\ continuous_play_enabled' = s.continuous_play_enabled
  /\ start_playback_requested' = s.start_playback_requested
  /\ stop_playback_requested' = s.stop_playback_requested
  /\ duration' = s.duration
  /\ box_art_url' = s.box_art_url
  /\ start_time' = s.start_time
  /\ was_stopped_by_user' = s.was_stopped_by_user
  /\ display' = s.display
  /\ os_alive' = s.os_alive
  /\ now' = s.now
  /\ hist' = s.hist
  /\ vis' = vis

\* ------------------------------------------------------------ get_duration
\* f.length is mid.length in whole seconds.  int(mid.length) when positive
\* (0 for a file shorter than a second); otherwise the tick sum, which is 0
\* for a file of length 0; 120 when the file cannot be read.
get_duration(f) ==
  IF ~f.readable THEN FallbackDuration
  ELSE IF f.length > 0 THEN f.length
  ELSE 0

\* ------------------------------------------------------------- GameDisplay
\* display.process: "None", or a Popen whose poll() is None ("Running") or
\* not None ("Exited").
ProcessAlive(s) == s.display.process = "Running"

set_button_state(s, state) ==
  IF state = "Play" THEN
    [s EXCEPT !.display.button = "Play", !.display.is_process_running = FALSE]
  ELSE IF state = "Stop" THEN
    [s EXCEPT !.display.button = "Stop", !.display.is_process_running = TRUE]
  ELSE IF state = "Disabled" THEN
    [s EXCEPT !.display.button = "Disabled", !.display.is_process_running = FALSE]
  ELSE s

\* Variant: the handle is dropped but the process is not terminated.
stop_playback_process_NoTerminate(s) ==
  [s EXCEPT !.display.process = "None", !.display.is_process_running = FALSE]

\* Variant: _is_process_running is reset only when a live process was
\* stopped.
stop_playback_process_KeepsFlag(s) ==
  IF ProcessAlive(s)
  THEN [s EXCEPT !.display.process = "None",
                 !.display.is_process_running = FALSE,
                 !.os_alive = s.os_alive - 1]
  ELSE s

\* Lines 194, 197, 208: the value of stopped that the call on s returns.
stop_playback_process_returns(s) == s.display.process # "None" /\ ProcessAlive(s)

\* terminate(), then kill() after the grace period: the process is dead when
\* the call returns.  The handle is cleared (line 206) only inside the branch
\* of a live process: the handle of an exited process is kept.
stop_playback_process(s) ==
  LET s1 == IF ProcessAlive(s)
            THEN [s EXCEPT !.display.process = "None",
                           !.os_alive = s.os_alive - 1]
            ELSE s
  IN [s1 EXCEPT !.display.is_process_running = FALSE]

\* spawn_ok: whether subprocess.Popen returns (TRUE) or raises (FALSE).
\* The result is the new state and the value returned.
start_playback_process(s, spawn_ok) ==
  LET s1 == IF ProcessAlive(s) THEN stop_playback_process(s) ELSE s
  IN IF spawn_ok
     THEN [state |-> [s1 EXCEPT !.display.process = "Running",
                                !.os_alive = s1.os_alive + 1,
                                !.display.is_process_running = TRUE],
           ret |-> TRUE]
     ELSE [state |-> [s1 EXCEPT !.display.process = "None",
                                !.display.is_process_running = FALSE],
           ret |-> FALSE]

\* download_ok: whether requests.get / Image.open succeed for the url.
update_display(s, image_url, title, download_ok) ==
  [s EXCEPT !.display.title = title,
            !.display.image = IF image_url # NoImage /\ download_ok
                              THEN image_url ELSE NoImage]

\* hist.progress_prev keeps the elapsed value of the previous call.
update_progress(s, current, total) ==
  [s EXCEPT !.display.progress = [current |-> current, total |-> total],
            !.hist.progress_prev = s.display.progress.current]

\* Variant: the result belongs to the file looked up before this one.
get_igdb_box_art_Stale(file_index, found) ==
  IF found /\ file_index > 0 THEN ArtOf(file_index - 1) ELSE NoImage

\* The lookup either finds a cover for the file it was asked about or
\* returns None (no match, timeout, network error).
get_igdb_box_art(file_index, found) ==
  IF found THEN ArtOf(file_index) ELSE NoImage

\* ------------------------------------------------- the callbacks of main()
\* Variant: closing the window also switches continuous mode off.
on_main_window_close_ModeOff(s) ==
  [s EXCEPT !.main_window_closed = TRUE, !.continuous_play_enabled = FALSE]

on_main_window_close(s) == [s EXCEPT !.main_window_closed = TRUE]

\* Variant: a Stop press leaves continuous mode as it is.
handle_play_stop_action_StopKeepsMode(s, is_process_running) ==
  IF is_process_running
  THEN [s EXCEPT !.stop_playback_requested = TRUE,
                 !.hist.stop_pressed = TRUE,
                 !.hist.last_press = "stop"]
  ELSE [s EXCEPT !.continuous_play_enabled = TRUE,
                 !.start_playback_requested = TRUE,
                 !.hist.play_pressed = TRUE,
                 !.hist.last_press = "play"]

\* Variant: a Play press starts one track and leaves continuous mode as it is.
handle_play_stop_action_PlayKeepsMode(s, is_process_running) ==
  IF is_process_running
  THEN [s EXCEPT !.continuous_play_enabled = FALSE,
                 !.stop_playback_requested = TRUE,
                 !.hist.stop_pressed = TRUE,
                 !.hist.last_press = "stop"]
  ELSE [s EXCEPT !.start_playback_requested = TRUE,
                 !.hist.play_pressed = TRUE,
                 !.hist.last_press = "play"]

handle_play_stop_action(s, is_process_running) ==
  IF is_process_running
  THEN [s EXCEPT !.continuous_play_enabled = FALSE,
                 !.stop_playback_requested = TRUE,
                 !.hist.stop_pressed = TRUE,
                 !.hist.last_press = "stop"]
  ELSE [s EXCEPT !.continuous_play_enabled = TRUE,
                 !.start_playback_requested = TRUE,
                 !.hist.play_pressed = TRUE,
                 !.hist.last_press = "play"]

\* Variant: the press is classified by the process, not by the flag.
handle_play_stop_click_ByProcess(s) ==
  handle_play_stop_action(s, ProcessAlive(s))

handle_play_stop_click(s) ==
  handle_play_stop_action(s, s.display.is_process_running)

\* Variant: the close handler only calls the callback.
on_window_close_NoStop(s) == on_main_window_close(s)

on_window_close(s) == on_main_window_close(stop_playback_process(s))

\* ------------------------------------------------- display.window.update()
\* Tk runs the handlers of the queued events in order; a disabled button
\* does not invoke its command.
DeliverEvent(s, e) ==
  IF e = "click"
  THEN IF s.display.button # "Disabled" THEN handle_play_stop_click(s) ELSE s
  ELSE on_window_close(s)

RECURSIVE RunHandlers(_, _)
RunHandlers(s, evs) ==
  IF evs = << >> THEN s
  ELSE RunHandlers(DeliverEvent(s, Head(evs)), Tail(evs))

\* hist.shown: what the window showed when it was last redrawn.
window_update(s, evs) ==
  LET s1 == RunHandlers(s, evs)
  IN [s1 EXCEPT !.hist.shown = [title |-> s1.display.title,
                                image |-> s1.display.image,
                                button |-> s1.display.button,
                                index |-> s1.current_index],
                !.hist.user_event = s.hist.user_event \/ evs # << >>]

\* ------------------------------------------------------------------ main()
\* hist.exit while no session has been left since the last start.
NoExit == [reason |-> "none", stop_pending |-> FALSE, natural |-> FALSE]

\* Variant: the loop test lets the index reach one past the last item.
LoopTest_OffByOne(s) == s.current_index <= PlaylistLen /\ ~s.main_window_closed

\* Line 302.
LoopTest(s) == s.current_index < PlaylistLen /\ ~s.main_window_closed

\* Lines 302-313: the loop test, then the display is cleared for the item
\* at current_index.  f is what mido reads from midi_files[current_index].
PrepareTrack(s, f) ==
  IF ~LoopTest(s)
  THEN [s EXCEPT !.pc = "finally"]
  ELSE LET d  == get_duration(f)
           s1 == [s EXCEPT !.duration = d, !.box_art_url = NoImage]
           s2 == update_display(s1, NoImage, base_name(s.current_index), TRUE)
           s3 == update_progress(s2, 0, d)
       IN [s3 EXCEPT !.pc = "lookup", !.hist.progress_prev = 0,
                     !.hist.attempted = FALSE]

\* Variant: without box art the loop is left.
FetchBoxArt_ArtRequired(s, found, download_ok) ==
  LET url == get_igdb_box_art(s.current_index, found)
      s1  == [s EXCEPT !.box_art_url = url]
  IN IF url # NoImage
     THEN [update_display(s1, url, base_name(s.current_index), download_ok)
             EXCEPT !.pc = "ready"]
     ELSE [s1 EXCEPT !.pc = "finally"]

\* Lines 317-319: the lookup is made for the file of this iteration and its
\* result is applied before anything else runs.
FetchBoxArt(s, found, download_ok) ==
  LET url == get_igdb_box_art(s.current_index, found)
      s1  == [s EXCEPT !.box_art_url = url]
      s2  == IF url # NoImage
             THEN update_display(s1, url, base_name(s.current_index), download_ok)
             ELSE s1
  IN [s2 EXCEPT !.pc = "ready"]

\* Variant: the wait for Play is skipped whatever the mode.
EnterWaitOrStart_NoWait(s) ==
  LET s4 == [s EXCEPT !.start_playback_requested = FALSE]
  IN IF s4.main_window_closed
     THEN [s4 EXCEPT !.pc = "finally"]
     ELSE [s4 EXCEPT !.pc = "start"]

\* Variant: the wait for Play is entered whatever the mode.
EnterWaitOrStart_AlwaysWait(s) ==
  LET s4 == [s EXCEPT !.start_playback_requested = FALSE]
  IN IF s4.main_window_closed
     THEN [s4 EXCEPT !.pc = "finally"]
     ELSE [s4 EXCEPT !.pc = "wait"]

\* Variant: the Play request is not reset at line 331.
EnterWaitOrStart_NoReset(s) ==
  IF ~s.continuous_play_enabled
     /\ ~s.start_playback_requested /\ ~s.main_window_closed
  THEN [s EXCEPT !.pc = "wait"]
  ELSE IF s.main_window_closed
       THEN [s EXCEPT !.pc = "finally"]
       ELSE [s EXCEPT !.pc = "start"]

\* Lines 331-339: the Play request is reset and the wait loop is entered
\* (continuous mode off) or skipped.
EnterWaitOrStart(s) ==
  LET s4 == [s EXCEPT !.start_playback_requested = FALSE]
  IN IF ~s4.continuous_play_enabled
        /\ ~s4.start_playback_requested /\ ~s4.main_window_closed
     THEN [s4 EXCEPT !.pc = "wait"]
     ELSE IF s4.main_window_closed
          THEN [s4 EXCEPT !.pc = "finally"]
          ELSE [s4 EXCEPT !.pc = "start"]

\* Lines 322-339: button for the mode, the window is redrawn, then the wait
\* loop or the start.  hist.cpe_prepared keeps the mode seen at line 322.
ShowPrepared(s, evs) ==
  LET s1 == [s EXCEPT !.hist.cpe_prepared = s.continuous_play_enabled]
      s2 == IF s1.continuous_play_enabled
            THEN set_button_state(s1, "Stop")
            ELSE set_button_state(s1, "Play")
      s3 == window_update(s2, evs)
  IN EnterWaitOrStart(s3)

\* Variant: the wait loop is left on a close but the break at line 339 is
\* missing.
WaitIteration_NoBreak(s, evs) ==
  LET s1 == IF s.display.window_exists
            THEN window_update(s, evs)
            ELSE [s EXCEPT !.main_window_closed = TRUE]
  IN IF ~s1.start_playback_requested /\ ~s1.main_window_closed
     THEN s1
     ELSE [s1 EXCEPT !.pc = "start"]

\* Lines 334-339: one pass of the wait loop and its loop test.
WaitIteration(s, evs) ==
  LET s1 == IF s.display.window_exists
            THEN window_update(s, evs)
            ELSE [s EXCEPT !.main_window_closed = TRUE]
  IN IF ~s1.start_playback_requested /\ ~s1.main_window_closed
     THEN s1
     ELSE IF s1.main_window_closed
          THEN [s1 EXCEPT !.pc = "finally"]
          ELSE [s1 EXCEPT !.pc = "start"]

\* Lines 344-358.  The clock is read only as now - start_time, so its origin
\* is moved to the instant start_time is taken (line 357).
StartPlayback(s, spawn_ok) ==
  LET r  == start_playback_process(s, spawn_ok)
      s1 == [r.state EXCEPT !.hist.attempted = TRUE]
  IN IF ~r.ret
     THEN LET s2 == [s1 EXCEPT !.continuous_play_enabled = FALSE]
              s3 == set_button_state(s2, "Play")
          IN [s3 EXCEPT !.current_index = s.current_index + 1,
                        !.pc = "loop",
                        !.hist.failed = s.hist.failed \cup {s.current_index},
                        !.hist.outcome = "FailedToStart",
                        !.hist.exit = NoExit,
                        !.hist.torn_down = FALSE,
                        !.hist.play_pressed = FALSE,
                        !.hist.stop_pressed = FALSE,
                        !.hist.user_event = FALSE]
     ELSE LET s2 == set_button_state(s1, "Stop")
          IN [s2 EXCEPT !.start_time = 0,
                        !.now = 0,
                        !.stop_playback_requested = FALSE,
                        !.pc = "monitor",
                        !.hist.outcome = "None",
                        !.hist.exit = NoExit,
                        !.hist.torn_down = FALSE]

\* Line 368.
process_finished(s) == s.display.process = "None" \/ ~ProcessAlive(s)

\* Variant: the elapsed time is not compared with the duration.
NaturalEnd_ProcessOnly(s) == s.display.process = "None" \/ ~ProcessAlive(s)

\* Line 369, with elapsed of line 367.
NaturalEnd(s) == process_finished(s) \/ (s.now - s.start_time) >= s.duration

\* Lines 364-375: one pass of the monitoring loop and its loop test.
\* hist.exit records what the pass that left the loop saw.
MonitorIteration(s, evs) ==
  IF s.stop_playback_requested
  THEN [s EXCEPT !.pc = "after",
                 !.hist.exit = [reason |-> "stop", stop_pending |-> TRUE,
                                natural |-> NaturalEnd(s)]]
  ELSE IF NaturalEnd(s)
  THEN [s EXCEPT !.pc = "after",
                 !.hist.exit = [reason |-> "natural", stop_pending |-> FALSE,
                                natural |-> TRUE]]
  ELSE LET s1 == IF s.display.window_exists
                 THEN window_update(
                        update_progress(s, s.now - s.start_time, s.duration), evs)
                 ELSE [s EXCEPT !.main_window_closed = TRUE]
       IN IF s1.main_window_closed
          THEN [s1 EXCEPT !.pc = "after",
                          !.hist.exit = [reason |-> "closed",
                                         stop_pending |-> s1.stop_playback_requested,
                                         natural |-> FALSE]]
          ELSE s1

\* Variant: the Stop request is reset (line 382) before it is read.
SessionStoppedByUser_ReadAfterReset(s) == FALSE

\* Variant: a renderer that is no longer alive counts as stopped by the user.
SessionStoppedByUser_OrProcessDead(s) ==
  s.stop_playback_requested \/ ~ProcessAlive(s)

\* Line 380: the outcome is read from the Stop request before it is reset.
SessionStoppedByUser(s) == s.stop_playback_requested

\* Variant: a session ended by Stop moves on to the next item.
AfterUserStop_Advance(s) ==
  [set_button_state(s, "Play") EXCEPT !.pc = "loop",
                                      !.current_index = s.current_index + 1]

\* Lines 386-389: after a Stop the button shows Play and current_index stays.
AfterUserStop(s) == [set_button_state(s, "Play") EXCEPT !.pc = "loop"]

\* Variant: the process is stopped only if it is still alive.
Teardown_OnlyIfAlive(s) ==
  IF ProcessAlive(s)
  THEN [stop_playback_process(s) EXCEPT !.hist.torn_down = TRUE]
  ELSE s

\* Line 381: the call that ends every session.  hist.torn_down records that
\* it was made since the session started.
Teardown(s) == [stop_playback_process(s) EXCEPT !.hist.torn_down = TRUE]

\* Lines 380-409.  The clock is not read again before the next start takes
\* start_time, so its value is dropped here.
AfterSession(s) ==
  LET s1 == [s EXCEPT !.was_stopped_by_user = SessionStoppedByUser(s)]
      s2 == Teardown(s1)
      s3 == [s2 EXCEPT !.stop_playback_requested = FALSE, !.now = 0]
  IN IF s3.main_window_closed
     THEN [s3 EXCEPT !.pc = "finally"]
     ELSE LET s4 == [s3 EXCEPT !.hist.outcome = IF s3.was_stopped_by_user
                                                THEN "StoppedByUser"
                                                ELSE "FinishedNaturally",
                               !.hist.cpe_at_end = s3.continuous_play_enabled,
                               !.hist.attempted = FALSE,
                               !.hist.play_pressed = FALSE,
                               !.hist.stop_pressed = FALSE,
                               !.hist.user_event = FALSE]
          IN IF s4.was_stopped_by_user
             THEN AfterUserStop(s4)
             ELSE LET s5 == [s4 EXCEPT !.current_index = s4.current_index + 1]
                  IN IF s5.current_index >= PlaylistLen
                     THEN LET s6 == set_button_state(
                                      [s5 EXCEPT !.continuous_play_enabled = FALSE],
                                      "Disabled")
                              s7 == update_display(s6, NoImage, FinishedTitle, TRUE)
                              s8 == update_progress(s7, 0, 0)
                          IN [s8 EXCEPT !.pc = "finished", !.hist.progress_prev = 0]
                     ELSE IF s5.continuous_play_enabled
                          THEN [set_button_state(s5, "Stop") EXCEPT !.pc = "loop"]
                          ELSE [set_button_state(s5, "Play") EXCEPT !.pc = "loop"]

\* Lines 398-402: one pass of the idle loop after the playlist finished.
FinishedIteration(s, evs) ==
  LET s1 == IF s.display.window_exists
            THEN window_update(s, evs)
            ELSE [s EXCEPT !.main_window_closed = TRUE]
  IN IF s1.main_window_closed THEN [s1 EXCEPT !.pc = "finally"] ELSE s1

\* Lines 413-418: the finally block; cleanup_processes kills every timidity.
Finally(s) ==
  LET s1 == IF s.display.window_exists
            THEN [stop_playback_process(s) EXCEPT !.display.window_exists = FALSE]
            ELSE s
  IN [s1 EXCEPT !.os_alive = 0, !.pc = "done"]

\* ------------------------------------------------------------------ mvp.py
\* vis.jobs: the callbacks Tk holds for window.after, each with the id that
\* after returned; vis.next_id: the id the next call of after returns;
\* vis.vis_peak: the index of the peak in vis_data, -1 for the initial data.
NoJob == 0

\* window.after(ms, fn): the job is queued and its id returned.
mvp_after(v, fn) ==
  [v EXCEPT !.jobs = v.jobs \cup {[id |-> v.next_id, fn |-> fn]},
            !.next_id = v.next_id + 1]

\* window.after_cancel(id); a job that has already run is not in the queue.
mvp_after_cancel(v, id) == [v EXCEPT !.jobs = {j \in v.jobs : j.id # id}]

\* Lines 228-234.  peak: the peak index generate_fake_data computes from
\* time.time().
mvp_animate_visualizer(v, peak) ==
  LET v1 == [v EXCEPT !.vis_peak = peak]
  IN [mvp_after(v1, "animate_visualizer") EXCEPT !.vis_update_job = v1.next_id]

\* Lines 236-243.
mvp_start_visualizer_loop(v, peak) ==
  LET v1 == IF v.vis_update_job # NoJob
            THEN [mvp_after_cancel(v, v.vis_update_job)
                    EXCEPT !.vis_update_job = NoJob]
            ELSE v
  IN mvp_animate_visualizer(v1, peak)

\* Variant: the window is destroyed without cancelling the pending job.
mvp_on_window_close_NoCancel(v) == [v EXCEPT !.window = "destroyed"]

\* Lines 267-276.
mvp_on_window_close(v) ==
  LET v1 == IF v.vis_update_job # NoJob
            THEN [mvp_after_cancel(v, v.vis_update_job)
                    EXCEPT !.vis_update_job = NoJob]
            ELSE v
  IN [v1 EXCEPT !.window = "destroyed"]

\* Lines 79-139: GameDisplay.__init__ of mvp.py.
mvp_init ==
  mvp_after([window |-> "open", jobs |-> {}, vis_update_job |-> NoJob,
             next_id |-> 1, vis_peak |-> -1],
            "start_visualizer_loop")

\* ----------------------------------------------------------------- actions
InitDisplay ==
  [ process |-> "None", is_process_running |-> FALSE, button |-> "Play",
    title |-> NoneTitle, image |-> NoImage,
    progress |-> [current |-> 0, total |-> 0], window_exists |-> TRUE ]

\* History: play_pressed, stop_pressed, user_event: a Play press, a Stop
\* press, any event was handled since the last session ended or failed to
\* start; last_press: the press the current step of main() handled last;
\* cpe_prepared: continuous_play_enabled at line 322; cpe_at_end: the same at
\* line 380; outcome: how the last session ended, "None" once the next one
\* has started; attempted: start_playback_process was called for the item
\* prepared last; failed: the indices whose start failed; progress_prev: the
\* elapsed value update_progress got the time before; exit: what the pass
\* that left the monitoring loop saw; shown: the window at its last redraw.
InitHist ==
  [ play_pressed |-> FALSE, stop_pressed |-> FALSE, user_event |-> FALSE,
    last_press |-> "none", cpe_prepared |-> FALSE, cpe_at_end |-> FALSE,
    outcome |-> "None", attempted |-> FALSE, failed |-> {}, progress_prev |-> 0,
    exit |-> NoExit, torn_down |-> FALSE,
    shown |-> [title |-> NoneTitle, image |-> NoImage, button |-> "Play",
               index |-> 0] ]

\* Lines 283-299.
Init ==
  /\ pc = "loop"
  /\ current_index = 0
  /\ main_window_closed = FALSE
  /\ continuous_play_enabled = FALSE
  /\ start_playback_requested = FALSE
  /\ stop_playback_requested = FALSE
  /\ duration = 0
  /\ box_art_url = NoImage
  /\ start_time = 0
  /\ was_stopped_by_user = FALSE
  /\ display = InitDisplay
  /\ os_alive = 0
  /\ now = 0
  /\ hist = InitHist
  /\ vis = mvp_init

Prepare == pc = "loop" /\ \E f \in FileTimings : Commit(PrepareTrack(Begin, f))

Lookup ==
  /\ pc = "lookup"
  /\ \E found \in BOOLEAN, download_ok \in BOOLEAN :
       Commit(FetchBoxArt(Begin, found, download_ok))

ShowWith(evs) == pc = "ready" /\ Commit(ShowPrepared(Begin, evs))
Show == \E evs \in EventSeqs : ShowWith(evs)

WaitWith(evs) == pc = "wait" /\ Commit(WaitIteration(Begin, evs))
Wait == \E evs \in EventSeqs : WaitWith(evs)

Start == pc = "start" /\ \E spawn_ok \in BOOLEAN : Commit(StartPlayback(Begin, spawn_ok))

MonitorWith(evs) == pc = "monitor" /\ Commit(MonitorIteration(Begin, evs))
Monitor == \E evs \in EventSeqs : MonitorWith(evs)

After == pc = "after" /\ Commit(AfterSession(Begin))

FinishedWith(evs) == pc = "finished" /\ Commit(FinishedIteration(Begin, evs))
Finished == \E evs \in EventSeqs : FinishedWith(evs)

Cleanup == pc = "finally" /\ Commit(Finally(Begin))

\* The renderer exits on its own.
ProcessExits ==
  /\ display.process = "Running"
  /\ Commit([Cur EXCEPT !.display.process = "Exited", !.os_alive = os_alive - 1])

\* time.time() advances; it is read only while a track is monitored.
Tick ==
  /\ pc = "monitor"
  /\ now < MaxTime
  /\ Commit([Cur EXCEPT !.now = now + 1])

\* time.time() advances past the values kept apart: the elapsed time reaches
\* the duration of the track being monitored.
LongTick ==
  /\ pc = "monitor"
  /\ now = MaxTime
  /\ now - start_time < duration
  /\ Commit([Cur EXCEPT !.now = start_time + duration])

Next ==
  \/ Prepare
  \/ Lookup
  \/ Show
  \/ Wait
  \/ Start
  \/ Monitor
  \/ After
  \/ Finished
  \/ Cleanup
  \/ ProcessExits
  \/ Tick
  \/ LongTick

Spec == Init /\ [][Next]_vars

\* The steps main() takes when the user does nothing.  main() is the only
\* thread and each of its calls returns (the network calls have timeouts),
\* so these steps are taken whenever they change the state.
Quiet ==
  \/ Prepare
  \/ Lookup
  \/ ShowWith(<< >>)
  \/ WaitWith(<< >>)
  \/ Start
  \/ MonitorWith(<< >>)
  \/ After
  \/ FinishedWith(<< >>)
  \/ Cleanup

FairSpec == Spec /\ WF_vars(Quiet)

\* As FairSpec, with a clock that keeps advancing while a track is monitored.
ClockSpec == Spec /\ WF_vars(Quiet) /\ WF_vars(Tick) /\ WF_vars(LongTick)

\* mvp.py, window.mainloop(): Tk runs the job queued at line 139.
VisStartJob ==
  /\ vis.window = "open"
  /\ \E j \in vis.jobs, peak \in 0..(NUM_BINS - 1) :
       /\ j.fn = "start_visualizer_loop"
       /\ vis' = mvp_start_visualizer_loop(
                    [vis EXCEPT !.jobs = vis.jobs \ {j}], peak)
  /\ UNCHANGED player_vars

\* Tk runs a job queued at line 234.
VisAnimateJob ==
  /\ vis.window = "open"
  /\ vis.next_id <= MaxJobs
  /\ \E j \in vis.jobs, peak \in 0..(NUM_BINS - 1) :
       /\ j.fn = "animate_visualizer"
       /\ vis' = mvp_animate_visualizer(
                    [vis EXCEPT !.jobs = vis.jobs \ {j}], peak)
  /\ UNCHANGED player_vars

\* The user closes the window: WM_DELETE_WINDOW runs on_window_close.
VisClose ==
  /\ vis.window = "open"
  /\ vis' = mvp_on_window_close(vis)
  /\ UNCHANGED player_vars

VisNext ==
  \/ VisStartJob
  \/ VisAnimateJob
  \/ VisClose

VisSpec == Init /\ [][VisNext]_vars

\* ================================================================= claims
SessionEnded == hist.outcome \in {"StoppedByUser", "FinishedNaturally"}

\* C1: at most one renderer process started through the display is alive,
\* and a live renderer is the one display.process refers to.
C1_AtMostOneRenderer ==
  /\ os_alive <= 1
  /\ os_alive = 1 => display.process = "Running"

\* A second track is playing after the first one was played to its end.
C1_Witness ==
  /\ current_index = 1
  /\ 0 \notin hist.failed
  /\ os_alive = 1
  /\ pc = "monitor"

\* C2: start_playback_process is called only with continuous mode on, and
\* then either a Play press has been handled for this track, or continuous
\* mode was on when the track was prepared and no Stop press came since.
C2_NoStartWithoutPlay ==
  pc = "start" =>
    /\ continuous_play_enabled
    /\ \/ hist.play_pressed
       \/ hist.cpe_prepared /\ ~hist.stop_pressed

\* A track prepared with continuous mode off is started by a Play press made
\* in the wait loop.
C2_Witness ==
  /\ pc = "start"
  /\ ~hist.cpe_prepared
  /\ hist.play_pressed
  /\ hist.shown.button = "Play"

\* C3: with continuous mode on when a track ends naturally and items left,
\* and with continuous mode on when a track has been prepared, the start of
\* the track is attempted unless the user intervenes first.
C3_ContinuousStartsNext ==
  ( \/ /\ pc = "loop"
        /\ hist.outcome = "FinishedNaturally"
        /\ hist.cpe_at_end
        /\ current_index < PlaylistLen
     \/ /\ pc = "ready"
        /\ continuous_play_enabled )
    ~> (hist.attempted \/ hist.user_event)

\* The second track has been started after the first ended naturally, with no
\* user event in between.
C3_Witness ==
  /\ pc = "monitor"
  /\ current_index = 1
  /\ hist.cpe_at_end
  /\ hist.attempted
  /\ ~hist.user_event
  /\ 0 \notin hist.failed

\* C4: a session the monitoring loop left on a Stop request ends as stopped
\* by the user, and after a session stopped by the user no start is made and
\* no renderer runs until a Play press has been handled.
C4_StopThenWaitForPlay ==
  /\ (SessionEnded /\ hist.exit.reason = "stop") =>
        (hist.outcome = "StoppedByUser" /\ was_stopped_by_user)
  /\ (hist.outcome = "StoppedByUser" /\ ~hist.play_pressed) =>
        /\ pc \in {"loop", "lookup", "ready", "wait", "finally", "done"}
        /\ os_alive = 0
        /\ ~continuous_play_enabled

\* After a Stop press ended a session the controller waits for Play again.
C4_Witness ==
  /\ pc = "wait"
  /\ hist.outcome = "StoppedByUser"
  /\ hist.exit.reason = "stop"
  /\ ~hist.play_pressed

\* C5: the session is recorded as stopped by the user exactly when a Stop
\* request was pending in the pass that left the monitoring loop, also when
\* the natural end was observable in that pass.
C5_StopWinsTie ==
  SessionEnded =>
    /\ hist.exit.stop_pending <=> hist.outcome = "StoppedByUser"
    /\ hist.exit.stop_pending <=> was_stopped_by_user

\* A Stop request and the natural end were both there in the last pass.
C5_Witness ==
  /\ hist.outcome = "StoppedByUser"
  /\ hist.exit.stop_pending
  /\ hist.exit.natural

\* C6: the values given to update_progress satisfy 0 <= elapsed <= duration,
\* and within a session each elapsed value is at least the one before.
C6_ProgressBounded ==
  /\ 0 <= display.progress.current
  /\ display.progress.current <= display.progress.total
  /\ hist.progress_prev <= display.progress.current

\* Two successive reports with growing elapsed time in one session.
C6_Witness ==
  /\ pc = "monitor"
  /\ hist.progress_prev = 1
  /\ display.progress.current = 2

\* C7 (as claimed): a failed start skips the item: the index advances by
\* one, an item whose start failed is never started again, and the window
\* never showed the Stop button (process running) for the failed item.
C7_FailedStartSkipsUnreported ==
  /\ pc = "start" => current_index \notin hist.failed
  /\ (pc = "loop" /\ hist.outcome = "FailedToStart") =>
        /\ (current_index - 1) \in hist.failed
        /\ hist.shown.index = current_index - 1
        /\ hist.shown.button # "Stop"

\* The part of C7 the code keeps: index advanced by one, no retry, and the
\* button is back in the Play state after the failure.
C7_FailedStartSkips ==
  /\ pc = "start" => current_index \notin hist.failed
  /\ (pc = "loop" /\ hist.outcome = "FailedToStart") =>
        /\ (current_index - 1) \in hist.failed
        /\ hist.shown.index = current_index - 1
        /\ display.button = "Play"
        /\ ~display.is_process_running
        /\ display.process = "None"

\* C8 (as claimed): the first item is started only after a Play press, and
\* after it ended naturally the second item, too, is started only after
\* another Play press.
C8_WaitsAgainAfterNaturalEnd ==
  /\ (pc = "start" /\ current_index = 0 /\ hist.outcome = "None") =>
        hist.play_pressed
  /\ (pc = "start" /\ current_index = 1 /\ hist.outcome = "FinishedNaturally") =>
        hist.play_pressed

\* C8 (amended): the first item is started only after a Play press; that
\* press switched continuous mode on, so a session that ends naturally ends
\* with continuous mode on, and unless the user intervenes the controller
\* goes on to start the next item without entering the wait loop.
C8_StartsNextAfterNaturalEnd ==
  /\ (pc = "start" /\ current_index = 0 /\ hist.outcome = "None") =>
        (hist.play_pressed /\ ~hist.cpe_prepared)
  /\ hist.outcome = "FinishedNaturally" => hist.cpe_at_end
  /\ (hist.outcome = "FinishedNaturally" /\ ~hist.user_event
        /\ current_index < PlaylistLen) =>
        /\ pc \in {"loop", "lookup", "ready", "start"}
        /\ continuous_play_enabled

\* The second item is about to be started with no Play press and no other
\* user event since the first one ended naturally.
C8_Witness ==
  /\ pc = "start"
  /\ current_index = 1
  /\ hist.outcome = "FinishedNaturally"
  /\ 0 \notin hist.failed
  /\ ~hist.play_pressed
  /\ ~hist.user_event

\* C9: whenever the window is redrawn, the title is that of the item at
\* current_index and a cover shown is the one looked up for that item.
C9_DisplayMatchesCurrentItem ==
  /\ hist.shown.title.kind = "file" => hist.shown.title.track = hist.shown.index
  /\ hist.shown.image.kind = "art" =>
        /\ hist.shown.title.kind = "file"
        /\ hist.shown.image.track = hist.shown.index
  /\ display.image.kind = "art" => display.title = base_name(display.image.track)

\* The cover of the second item is on screen while the second item is current.
C9_Witness ==
  /\ hist.shown.index = 1
  /\ current_index = 1
  /\ hist.shown.image = ArtOf(1)
  /\ hist.shown.title = base_name(1)

PressTurnsOn == hist'.last_press = "play" /\ continuous_play_enabled'
PressTurnsOff == hist'.last_press = "stop" /\ ~continuous_play_enabled'
ExhaustedTurnsOff == pc = "after" /\ pc' = "finished" /\ ~continuous_play_enabled'
FailedStartTurnsOff == pc = "start" /\ pc' = "loop" /\ ~continuous_play_enabled'

\* C10 (as claimed): continuous_play_enabled starts false and changes only in
\* a step that handles a Play press (to true) or a Stop press (to false), or
\* when the playlist is exhausted (to false).
C10_ModeChangedOnlyByUser ==
  /\ ~continuous_play_enabled
  /\ [][continuous_play_enabled' # continuous_play_enabled =>
          (PressTurnsOn \/ PressTurnsOff \/ ExhaustedTurnsOff)]_vars

\* C10 (amended): as above, and a failed start also forces it to false.
C10_ModeChangedByUserOrFailure ==
  /\ ~continuous_play_enabled
  /\ [][continuous_play_enabled' # continuous_play_enabled =>
          (PressTurnsOn \/ PressTurnsOff \/ ExhaustedTurnsOff
             \/ FailedStartTurnsOff)]_vars

\* An item prepared in continuous mode failed to start and the mode is off.
C10_Witness ==
  /\ pc = "loop"
  /\ hist.outcome = "FailedToStart"
  /\ hist.cpe_prepared
  /\ ~hist.stop_pressed
  /\ ~continuous_play_enabled

\* C11: current_index stays within 0..len(midi_files) and never decreases;
\* once it equals len(midi_files) no item is prepared, waited for, started
\* or monitored any more and no renderer is alive.
C11_IndexMonotoneExhaustionFinal ==
  /\ [](/\ 0 <= current_index
        /\ current_index <= PlaylistLen
        /\ current_index = PlaylistLen =>
             /\ pc \in {"loop", "finished", "finally", "done"}
             /\ os_alive = 0)
  /\ [][/\ current_index' >= current_index
        /\ current_index' <= current_index + 1
        /\ (current_index = PlaylistLen /\ pc = "loop") => pc' \in {"loop", "finally"}]_vars

\* The playlist is exhausted after its last item was played.
C11_Witness ==
  /\ current_index = PlaylistLen
  /\ pc = "finished"
  /\ hist.failed = {}

\* C12 (as claimed): once the index has reached len(midi_files) and main()
\* has gone past the loop test, the window was told that the playlist is
\* finished (button Disabled, title 'Playlist Finished') and continuous mode
\* is off, whichever way the index got there.
C12_ExhaustionNotified ==
  (current_index = PlaylistLen /\ pc \in {"finished", "finally", "done"}) =>
    /\ display.button = "Disabled"
    /\ display.title = FinishedTitle
    /\ ~continuous_play_enabled

\* C12, the part that holds: continuous mode is off once the playlist is
\* exhausted, and the natural end of the last item notifies the window.
C12_ExhaustionTurnsModeOff ==
  (current_index = PlaylistLen /\ pc \in {"finished", "finally", "done"}) =>
    /\ ~continuous_play_enabled
    /\ (PlaylistLen - 1) \notin hist.failed =>
         (display.button = "Disabled" /\ display.title = FinishedTitle)

\* C13: no renderer started by main() is alive once the window has been
\* closed (the close handler stops the live process before main() learns of
\* the close), nor when main() reaches its final cleanup or has returned.
C13_NoOrphanAtExit ==
  /\ main_window_closed => (os_alive = 0 /\ ~ProcessAlive(Cur))
  /\ pc \in {"finally", "done"} => (os_alive = 0 /\ ~ProcessAlive(Cur))
  /\ pc = "done" => ~display.window_exists

\* The window was closed while a track was playing and main() has returned.
C13_Witness ==
  /\ pc = "done"
  /\ main_window_closed
  /\ hist.exit.reason = "closed"

\* C14: in every state the program reaches, stop_playback_process returns
\* true exactly when the handle refers to a live process; after the call no
\* renderer is alive and _is_process_running is false; a second call returns
\* false and changes nothing.
C14_StopReturnsAndIdempotent ==
  LET once == stop_playback_process(Cur)
      twice == stop_playback_process(once)
  IN /\ stop_playback_process_returns(Cur) = (os_alive = 1)
     /\ ~ProcessAlive(once)
     /\ once.os_alive = 0
     /\ ~once.display.is_process_running
     /\ ~stop_playback_process_returns(once)
     /\ twice = once

\* The teardown of a session ended by Stop has stopped a live process.
C14_Witness ==
  /\ pc = "loop"
  /\ hist.exit.reason = "stop"
  /\ display.process = "None"
  /\ os_alive = 0

\* What a run does apart from the picture: the state with the looked-up URL
\* and the image on display blanked.
ControlView(s) ==
  [s EXCEPT !.box_art_url = NoImage,
            !.display.image = NoImage,
            !.hist.shown.image = NoImage]

\* C15: the outcome of the box-art lookup does not steer playback.  From
\* every reachable state the lookup step gives the same state, picture apart,
\* whatever the lookup and the download return, and every other step of
\* main() gives the same state, picture apart, whether it starts from the
\* state or from the state with the picture blanked; so two runs that differ
\* only in lookup outcomes agree step by step on everything but the image.
C15_LookupDoesNotSteer ==
  LET b == Begin
      e == ControlView(Begin)
  IN /\ pc = "lookup" =>
          \A found \in BOOLEAN, download_ok \in BOOLEAN :
            /\ ControlView(FetchBoxArt(b, found, download_ok))
                 = ControlView(FetchBoxArt(b, FALSE, FALSE))
            /\ ControlView(FetchBoxArt(b, found, download_ok))
                 = ControlView(FetchBoxArt(e, found, download_ok))
     /\ pc = "loop" =>
          \A f \in FileTimings :
            ControlView(PrepareTrack(b, f)) = ControlView(PrepareTrack(e, f))
     /\ pc = "ready" =>
          \A evs \in EventSeqs :
            ControlView(ShowPrepared(b, evs)) = ControlView(ShowPrepared(e, evs))
     /\ pc = "wait" =>
          \A evs \in EventSeqs :
            ControlView(WaitIteration(b, evs)) = ControlView(WaitIteration(e, evs))
     /\ pc = "start" =>
          \A spawn_ok \in BOOLEAN :
            ControlView(StartPlayback(b, spawn_ok))
              = ControlView(StartPlayback(e, spawn_ok))
     /\ pc = "monitor" =>
          \A evs \in EventSeqs :
            ControlView(MonitorIteration(b, evs))
              = ControlView(MonitorIteration(e, evs))
     /\ pc = "after" => ControlView(AfterSession(b)) = ControlView(AfterSession(e))
     /\ pc = "finished" =>
          \A evs \in EventSeqs :
            ControlView(FinishedIteration(b, evs))
              = ControlView(FinishedIteration(e, evs))
     /\ pc = "finally" => ControlView(Finally(b)) = ControlView(Finally(e))

\* The second item plays with its box art on display; the first one was not
\* skipped.
C15_Witness ==
  /\ pc = "monitor"
  /\ current_index = 1
  /\ display.image = ArtOf(1)
  /\ hist.shown.image = ArtOf(1)
  /\ 0 \notin hist.failed

\* C16 (as claimed): after a session ended by a user Stop the item prepared
\* next is the one after the stopped item.
C16_StopAdvances ==
  (pc = "lookup" /\ hist.outcome = "StoppedByUser") =>
    /\ current_index = hist.shown.index + 1
    /\ display.title = base_name(hist.shown.index + 1)

\* C16 (amended): after a session ended by a user Stop current_index is
\* unchanged and the item prepared next is the stopped item itself, with the
\* button in Play state and continuous mode off.
C16_StopStays ==
  (pc \in {"loop", "lookup"} /\ hist.outcome = "StoppedByUser") =>
    /\ current_index = hist.shown.index
    /\ display.button = "Play"
    /\ ~continuous_play_enabled
    /\ pc = "lookup" => display.title = base_name(hist.shown.index)

\* The second item was stopped by the user and has been prepared again.
C16_Witness ==
  /\ pc = "lookup"
  /\ hist.outcome = "StoppedByUser"
  /\ current_index = 1
  /\ display.title = base_name(1)

\* C17 (as claimed): whenever main() is in the wait-for-Play loop the button
\* is in Play state and _is_process_running is false.
C17_WaitingShowsPlay ==
  pc = "wait" => (display.button = "Play" /\ ~display.is_process_running)

\* C17, the part that holds: the wait loop is entered with the button in Stop
\* state only when a Stop press was handled during the redraw of an item
\* prepared in continuous mode.
C17_WaitingShowsPlayUnlessStopped ==
  pc = "wait" =>
    \/ display.button = "Play" /\ ~display.is_process_running
    \/ /\ display.button = "Stop" /\ display.is_process_running
       /\ hist.cpe_prepared /\ hist.stop_pressed /\ ~continuous_play_enabled

\* C18 (as claimed): the two request flags are never both set, the Play
\* request is clear once the start it asked for has been attempted, and the
\* Stop request is clear once the session it ended has been torn down.
C18_OnePendingCommand ==
  /\ ~(start_playback_requested /\ stop_playback_requested)
  /\ pc \in {"monitor", "after"} => ~start_playback_requested
  /\ pc \in {"loop", "lookup", "finished"} => ~stop_playback_requested

\* C18 (amended): each flag is clear before it is tested again.  The wait
\* loop never sees a Play request made before line 331, and a Play request
\* seen at the start was pressed for the item being started; the Stop request
\* is clear after the teardown and at every start, and a Stop request seen
\* while a track is monitored was pressed during that session.
C18_FlagsClearBeforeNextTest ==
  /\ pc = "wait" => ~start_playback_requested
  /\ (pc = "start" /\ start_playback_requested) => hist.play_pressed
  /\ pc \in {"loop", "lookup", "ready", "start", "finished"} =>
       ~stop_playback_requested
  /\ pc = "start" => ~hist.stop_pressed
  /\ (pc \in {"monitor", "after"} /\ stop_playback_requested) => hist.stop_pressed

\* A track started by a Play press is being monitored, Stop has been
\* pressed, and both request flags are set.
C18_Witness ==
  /\ pc = "monitor"
  /\ start_playback_requested
  /\ stop_playback_requested
  /\ hist.play_pressed
  /\ hist.stop_pressed

\* C19 (as claimed): a track is never monitored with a duration of 0 (an
\* estimate of 0 is replaced by the fallback), so no session is ended by the
\* duration test at elapsed time 0 while its renderer is alive.
C19_ZeroDurationUsesFallback ==
  /\ pc = "monitor" => duration > 0
  /\ (pc = "after" /\ hist.exit.reason = "natural" /\ now = start_time) =>
       ~ProcessAlive(Cur)

\* C20 (as claimed): after the teardown that ends a session, whether the
\* session ended by Stop, by the duration or by the renderer exiting,
\* display.process is None.
C20_HandleClearedAfterTeardown ==
  (SessionEnded /\ pc \in {"loop", "lookup", "ready", "wait", "start", "finished"}) =>
    display.process = "None"

\* C20, the part that holds: after the teardown the handle is None or refers
\* to a renderer that had exited on its own before the teardown; it never
\* refers to a live one.
C20_HandleNotLiveAfterTeardown ==
  (SessionEnded /\ pc \in {"loop", "lookup", "ready", "wait", "start", "finished"}) =>
    /\ display.process \in {"None", "Exited"}
    /\ os_alive = 0

\* C21: once a session has been left (Stop seen, process no longer alive,
\* duration reached or window closed), current_index does not change, no
\* start is attempted and no renderer appears unless stop_playback_process
\* has been called at line 381 for that session; after the session is left
\* and main() has moved on, the call has been made, also for a process that
\* had already exited.
C21_TeardownBeforeAdvance ==
  /\ []((hist.exit.reason # "none" /\ pc # "after") => hist.torn_down)
  /\ [][(hist.exit.reason # "none" /\ ~hist.torn_down /\ ~hist.torn_down') =>
          /\ current_index' = current_index
          /\ os_alive' <= os_alive
          /\ hist.attempted' = hist.attempted]_vars

\* The renderer exited on its own, the session was torn down and the index
\* has advanced.
C21_Witness ==
  /\ hist.exit.reason = "natural"
  /\ display.process = "Exited"
  /\ hist.torn_down
  /\ current_index = 1
  /\ pc = "loop"

\* C22: a press handled in a state where no process is marked running
\* leaves continuous_play_enabled true and a start requested; a press handled
\* where a process is marked running leaves it false and a stop requested.
\* Checked on the handler applied to every reachable state, and on the state
\* after each window update by the press handled last.
C22_PressSetsMode ==
  LET r == handle_play_stop_click(Cur)
  IN /\ ~display.is_process_running =>
          (r.continuous_play_enabled /\ r.start_playback_requested
           /\ r.stop_playback_requested = stop_playback_requested)
     /\ display.is_process_running =>
          (~r.continuous_play_enabled /\ r.stop_playback_requested
           /\ r.start_playback_requested = start_playback_requested)
     /\ hist.last_press = "play" => continuous_play_enabled
     /\ hist.last_press = "stop" =>
          (~continuous_play_enabled /\ stop_playback_requested)

\* A Stop press was handled while a track is monitored.
C22_Witness ==
  /\ pc = "monitor"
  /\ hist.last_press = "stop"
  /\ display.is_process_running
  /\ ~continuous_play_enabled
  /\ stop_playback_requested

\* The session was left because the renderer exited on its own before the
\* duration was reached, with no Stop pending, and is about to be torn down.
EarlyExit ==
  /\ pc = "after"
  /\ hist.exit.reason = "natural"
  /\ display.process = "Exited"
  /\ now - start_time < duration
  /\ ~stop_playback_requested

\* C23 (as claimed): after the renderer exited on its own, the session ends
\* as a natural completion: the index advances by one, the item is not
\* recorded as a failed start, and continuous_play_enabled is unchanged.
C23_EarlyExitKeepsMode ==
  [][(EarlyExit /\ pc' # "after") =>
       /\ current_index' = current_index + 1
       /\ hist.outcome' = "FinishedNaturally"
       /\ current_index \notin hist.failed'
       /\ continuous_play_enabled' = continuous_play_enabled]_vars

\* C23 (amended): as above, except that continuous_play_enabled is forced to
\* false when the item was the last one; and the teardown gives the state it
\* gives for a session ended by the duration with the renderer alive, apart
\* from the handle of the exited process.
C23_EarlyExitIsNaturalEnd ==
  /\ [](EarlyExit =>
          LET live == [Begin EXCEPT !.display.process = "Running",
                                    !.os_alive = 1]
          IN AfterSession(Begin)
               = [AfterSession(live) EXCEPT !.display.process = "Exited"])
  /\ [][(EarlyExit /\ pc' # "after") =>
          /\ current_index' = current_index + 1
          /\ hist.outcome' = "FinishedNaturally"
          /\ current_index \notin hist.failed'
          /\ continuous_play_enabled' =
               IF current_index + 1 = PlaylistLen
               THEN FALSE
               ELSE continuous_play_enabled]_vars

\* The first item's renderer exited before the duration in continuous mode
\* and the monitoring loop has been left for the teardown.
C23_Witness ==
  /\ EarlyExit
  /\ current_index = 0
  /\ hist.failed = {}
  /\ continuous_play_enabled

\* Continuous mode is on and the window is open.
Unattended == continuous_play_enabled /\ ~main_window_closed

\* Continuous mode was switched off by a Stop press: the press has just been
\* handled, or the session it stopped has been torn down.
StoppedByPress ==
  /\ ~continuous_play_enabled
  /\ hist.last_press = "stop" \/ hist.outcome = "StoppedByUser"

\* Continuous mode has been switched off by a failed start.
StoppedByFailure == ~continuous_play_enabled /\ hist.outcome = "FailedToStart"

C25_NoStartAfterClose ==
  /\ [](main_window_closed =>
          /\ pc \in {"after", "finally", "done"}
          /\ os_alive = 0)
  /\ [][main_window_closed =>
          /\ main_window_closed'
          /\ current_index' = current_index
          /\ os_alive' = 0
          /\ hist.attempted' => hist.attempted
          /\ hist.failed' = hist.failed]_vars

\* The window was closed while the second item was prepared, before any
\* start of it, and main() is about to clean up.
C25_Witness ==
  /\ main_window_closed
  /\ pc = "finally"
  /\ current_index = 1
  /\ display.title = base_name(1)
  /\ ~hist.attempted
  /\ hist.exit.reason # "closed"

\* The animate_visualizer callbacks Tk holds.
AnimationJobs == {j \in vis.jobs : j.fn = "animate_visualizer"}

\* C26: in mvp.py at most one animate_visualizer callback is scheduled, and
\* the one scheduled is the job recorded in vis_update_job; once the window
\* has been closed none is scheduled and vis_update_job is None.
C26_OneAnimationJob ==
  /\ Cardinality(AnimationJobs) <= 1
  /\ \A j \in AnimationJobs : j.id = vis.vis_update_job
  /\ (vis.window = "open" /\ vis.vis_update_job # NoJob) => AnimationJobs # {}
  /\ vis.window = "destroyed" =>
       (AnimationJobs = {} /\ vis.vis_update_job = NoJob)

\* The window was closed while the animation was running.
C26_Witness ==
  /\ vis.window = "destroyed"
  /\ vis.next_id > 3
  /\ vis.vis_peak >= 0
  /\ vis.jobs = {}

====
